---- MODULE Spec2Model ----
(***************************************************************************)
(* MessageMap of TediCrossLite: the index bridge -> entry key -> target    *)
(* ids, its expiry timers (safeTimeout) and its two persistence schemes    *)
(* (the JSON snapshot of src/src/MessageMap.ts, the appended CSV log of    *)
(* src/unnamed/part_000).                                                   *)
(*                                                                         *)
(* A JavaScript string is a sequence of one-character strings, so that     *)
(* template literals, split and trim are computed, not assumed.            *)
(* A Map is a sequence of entries in insertion order, a Set a sequence     *)
(* without repetition in insertion order; the outer map is a function on   *)
(* the bridge names that have a sub-map.                                   *)
(***************************************************************************)
EXTENDS Integers, Sequences, FiniteSets, TLC

\* ------------------------------------------------------------ bounds
MaxTimers == 2     \* pending expiry timers at any time
MaxPersisted == 2  \* inserts made with persistence enabled
MaxHi == 2         \* requested delays range up to MaxHi * MAX_32_BIT + ...

\* ------------------------------------------------------------ strings
Range(s) == {s[i] : i \in 1..Len(s)}

D2T == <<"d", "2", "t">>
T2D == <<"t", "2", "d">>
Directions == {D2T, T2D}
\* a direction that is neither of the two constants
OtherDirection == <<"t", "2", "t">>

Bridges == {<<"x">>, <<"y">>}
FromIds == {<<"1">>, <<"1", " ", "2">>}
ToIds == {<<"7">>, <<"8">>}

\* String.prototype.split(sep) for a one-character separator
RECURSIVE SplitFrom(_, _, _, _)
SplitFrom(s, sep, i, cur) ==
    IF i > Len(s) THEN <<cur>>
    ELSE IF s[i] = sep THEN <<cur>> \o SplitFrom(s, sep, i + 1, <<>>)
    ELSE SplitFrom(s, sep, i + 1, Append(cur, s[i]))

Split(s, sep) == SplitFrom(s, sep, 1, <<>>)

\* String.prototype.trim()
RECURSIVE TrimLeft(_)
TrimLeft(s) == IF s # <<>> /\ Head(s) = " " THEN TrimLeft(Tail(s)) ELSE s

RECURSIVE TrimRight(_)
TrimRight(s) ==
    IF s # <<>> /\ s[Len(s)] = " " THEN TrimRight(SubSeq(s, 1, Len(s) - 1)) ELSE s

Trim(s) == TrimRight(TrimLeft(s))

\* the template literal `${direction} ${fromId}`
KeyNoDirection(direction, fromId) == <<" ">> \o fromId
EntryKey(direction, fromId) == direction \o <<" ">> \o fromId

\* ------------------------------------------------------------ Map and Set
\* Set.prototype.add
SetAddAlways(ids, id) == Append(ids, id)
SetAdd(ids, id) == IF id \in Range(ids) THEN ids ELSE Append(ids, id)

\* new Set(array)
RECURSIVE SetOf(_)
SetOf(arr) == IF arr = <<>> THEN <<>> ELSE SetAdd(SetOf(SubSeq(arr, 1, Len(arr) - 1)), arr[Len(arr)])

\* Map.prototype.has / get / set / delete on an inner map
InnerHas(inner, key) == \E i \in 1..Len(inner) : inner[i].key = key
InnerIndex(inner, key) == CHOOSE i \in 1..Len(inner) : inner[i].key = key
InnerGet(inner, key) == inner[InnerIndex(inner, key)].ids
InnerSet(inner, key, ids) ==
    IF InnerHas(inner, key)
    THEN [inner EXCEPT ![InnerIndex(inner, key)] = [key |-> key, ids |-> ids]]
    ELSE Append(inner, [key |-> key, ids |-> ids])
InnerDeleteNothing(inner, key) == inner
InnerDelete(inner, key) ==
    IF InnerHas(inner, key)
    THEN SubSeq(inner, 1, InnerIndex(inner, key) - 1)
         \o SubSeq(inner, InnerIndex(inner, key) + 1, Len(inner))
    ELSE inner

EmptyMap == <<>>
OuterSet(m, b, inner) == [x \in DOMAIN m \cup {b} |-> IF x = b THEN inner ELSE m[x]]

\* ------------------------------------------------------------ index operations
\* insert, lines 78-94: get/create the bridge's sub-map, get/create the key's
\* set, add toId
InsertIndexFresh(m, direction, bridgeName, fromId, toId) ==
    LET keyToIdsMap == IF bridgeName \in DOMAIN m THEN m[bridgeName] ELSE <<>>
    IN  OuterSet(m, bridgeName, InnerSet(keyToIdsMap, EntryKey(direction, fromId), <<toId>>))
InsertIndex(m, direction, bridgeName, fromId, toId) ==
    LET keyToIdsMap == IF bridgeName \in DOMAIN m THEN m[bridgeName] ELSE <<>>
        key == EntryKey(direction, fromId)
        toIds == IF InnerHas(keyToIdsMap, key) THEN InnerGet(keyToIdsMap, key) ELSE <<>>
    IN  OuterSet(m, bridgeName, InnerSet(keyToIdsMap, key, SetAdd(toIds, toId)))

\* the expiry callback of insert: keyToIdsMap.delete(key) on the sub-map the
\* insert used (sub-maps are never replaced while the instance lives); not a
\* delete in every sub-map, and not a delete of the oldest id alone
ExpireIndexEveryBridge(m, bridgeName, key) ==
    [b \in DOMAIN m |-> InnerDelete(m[b], key)]
ExpireIndexOldest(m, bridgeName, key) ==
    IF bridgeName \in DOMAIN m /\ InnerHas(m[bridgeName], key)
    THEN IF Len(InnerGet(m[bridgeName], key)) <= 1
         THEN [m EXCEPT ![bridgeName] = InnerDelete(m[bridgeName], key)]
         ELSE [m EXCEPT ![bridgeName] = InnerSet(m[bridgeName], key, Tail(InnerGet(m[bridgeName], key)))]
    ELSE m
ExpireIndex(m, bridgeName, key) ==
    IF bridgeName \in DOMAIN m
    THEN [m EXCEPT ![bridgeName] = InnerDelete(m[bridgeName], key)]
    ELSE m

\* getCorresponding: [...(this._map.get(bridge.name)?.get(key) ?? [])]
getCorrespondingAnyBridge(m, direction, bridgeName, fromId) ==
    LET key == EntryKey(direction, fromId)
        hit == {b \in DOMAIN m : InnerHas(m[b], key)}
    IN  IF hit = {} THEN <<>> ELSE InnerGet(m[CHOOSE b \in hit : TRUE], key)
getCorresponding(m, direction, bridgeName, fromId) ==
    LET key == EntryKey(direction, fromId)
    IN  IF bridgeName \in DOMAIN m /\ InnerHas(m[bridgeName], key)
        THEN InnerGet(m[bridgeName], key)
        ELSE <<>>

\* the index after a lookup for the bridge: this._map.get(bridge.name) and
\* keyToIdsMap.get(key) only read, a bridge without sub-map gets none
AfterLookupCreating(m, bridgeName) ==
    IF bridgeName \in DOMAIN m THEN m ELSE OuterSet(m, bridgeName, <<>>)
AfterLookup(m, bridgeName) == m

\* [...keyToIdsMap].find(([, ids]) => ids.has(toId)): the first entry in
\* insertion order whose set holds toId, 0 when there is none
FindFirst(inner, toId) ==
    LET hits == {i \in 1..Len(inner) : toId \in Range(inner[i].ids)}
    IN  IF hits = {} THEN 0 ELSE CHOOSE i \in hits : \A j \in hits : i <= j

\* getCorrespondingReverse: the found key split on " " without its first piece
getCorrespondingReverse(m, bridgeName, toId) ==
    IF bridgeName \in DOMAIN m
    THEN LET keyToIdsMap == m[bridgeName]
             i == FindFirst(keyToIdsMap, toId)
             key == IF i = 0 THEN <<"0">> ELSE keyToIdsMap[i].key
         IN  IF key # <<"0">> THEN Tail(Split(key, " ")) ELSE <<>>
    ELSE <<>>

\* ------------------------------------------------------------ JSON snapshot
\* A file is [kind |-> "text", lines |-> ...] (raw text, one string per line)
\* or [kind |-> "json", value |-> dict], the text JSON.stringify made of dict.
\* A dict of the snapshot is a function bridge name -> sequence of
\* [key, arr] properties in property order.
EmptyFile == [kind |-> "text", lines |-> <<>>]
GarbageFile == [kind |-> "text", lines |-> << <<"x", ",", "x", ",", "x", ",", "x">> >>]
TruncatedFile == [kind |-> "text", lines |-> << <<"{">> >>]

\* innerDict[innerKey] = ...; dict[key] = innerDict, once per inner key: each
\* assignment replaces the object stored under dict[key]
RECURSIVE convertFromInner(_, _, _)
convertFromInner(inner, i, acc) ==
    IF i > Len(inner) THEN acc
    ELSE convertFromInner(inner, i + 1, <<[key |-> inner[i].key, arr |-> inner[i].ids]>>)

convertFromMap(m) == [b \in DOMAIN m |-> convertFromInner(m[b], 1, <<>>)]

RECURSIVE convertToInner(_, _, _)
convertToInner(props, i, acc) ==
    IF i > Len(props) THEN acc
    ELSE convertToInner(props, i + 1, InnerSet(acc, props[i].key, SetOf(props[i].arr)))

convertToMap(dict) == [b \in DOMAIN dict |-> convertToInner(dict[b], 1, <<>>)]

JSONstringify(dict) == [kind |-> "json", value |-> dict]

\* JSON.parse(text || "{}"): the empty text stands for {}; text that is no JSON
\* makes JSON.parse throw
JSONparseThrows(f) == f.kind = "text" /\ f.lines # <<>>
JSONparse(f) == IF f.kind = "json" THEN f.value ELSE <<>>

\* ------------------------------------------------------------ CSV log
digRow(m, bridgeName, exchangeId, value) ==
    LET bridge == IF bridgeName \in DOMAIN m THEN m[bridgeName] ELSE <<>>
        exchange == IF InnerHas(bridge, exchangeId) THEN InnerGet(bridge, exchangeId) ELSE <<>>
    IN  OuterSet(m, bridgeName, InnerSet(bridge, exchangeId, SetAdd(exchange, value)))

loadLine(m, line) ==
    LET cols == Split(line, ",")
    IN  IF Len(cols) < 4 THEN m
        ELSE IF cols[3] = <<">">>
             THEN digRow(m, cols[1], T2D \o <<" ">> \o Trim(cols[2]), Trim(cols[4]))
        ELSE IF cols[3] = <<"<">>
             THEN digRow(m, cols[1], D2T \o <<" ">> \o Trim(cols[4]), Trim(cols[2]))
        ELSE digRow(m, cols[1], <<>>, <<>>)

RECURSIVE loadLines(_, _, _)
loadLines(lines, i, m) ==
    IF i > Len(lines) THEN m ELSE loadLines(lines, i + 1, loadLine(m, lines[i]))

\* fileContent.split("\n"): every line of the file and the empty string after
\* the last newline; the pretty-printed JSON text has no line with four columns
loadFile(f) ==
    IF f.kind = "text" THEN loadLines(f.lines \o << <<>> >>, 1, EmptyMap) ELSE EmptyMap

\* `${bridge.name},${from},${arrow},${to}\n`
csvLine(direction, bridgeName, fromId, toId) ==
    IF direction = T2D THEN bridgeName \o <<",">> \o fromId \o <<",", ">", ",">> \o toId
    ELSE IF direction = D2T THEN bridgeName \o <<",">> \o toId \o <<",", "<", ",">> \o fromId
    ELSE bridgeName \o <<",", ",", ",">>

appendLine(f, line) ==
    IF f.kind = "text" THEN [f EXCEPT !.lines = Append(@, line)] ELSE f

\* ------------------------------------------------------------ safeTimeout
\* A delay in milliseconds is hi * MAX_32_BIT + lo with 0 <= lo < MAX_32_BIT:
\* exact arithmetic on delays above the largest machine integer.
MAX_32_BIT == 2147483647

Ms(hi, lo) == [hi |-> hi, lo |-> lo]
Zero == Ms(0, 0)
MaxDelay == Ms(1, 0)
Less(a, b) == a.hi < b.hi \/ (a.hi = b.hi /\ a.lo < b.lo)
Plus(a, b) ==
    IF a.lo >= MAX_32_BIT - b.lo
    THEN Ms(a.hi + b.hi + 1, a.lo - (MAX_32_BIT - b.lo))
    ELSE Ms(a.hi + b.hi, a.lo + b.lo)

\* delay > MAX_32_BIT
MustChainNever(delay) == FALSE
MustChain(delay) == Less(MaxDelay, delay)
\* delay - MAX_32_BIT
Remaining(delay) == Ms(delay.hi - 1, delay.lo)
\* Math.min(MAX_32_BIT, delay)
WaitOf(delay) == IF Less(MaxDelay, delay) THEN MaxDelay ELSE delay

\* safeTimeout(onTimeout, delay): the pending setTimeout, its callback closing
\* over onTimeout and delay (waited: history, the waits this chain has finished)
safeTimeout(onTimeout, delay) ==
    [onTimeout |-> onTimeout, delay |-> delay, wait |-> WaitOf(delay), waited |-> Zero]

\* ------------------------------------------------------------ state
VARIABLES
    variant,     \* "snapshot": src/src/MessageMap.ts, "log": src/unnamed/part_000
    persistent,  \* settings.persistentMessageMap
    timeout,     \* moment.duration(amount, unit).asMilliseconds()
    phase,       \* "start" (no instance), "running", "failed" (constructor threw)
    map,         \* this._map
    timers,      \* pending safeTimeout chains, in the order insert scheduled them
                 \* (first: history, whether the chain is the one of the insert that
                 \* created the entry key the index holds now)
    file,        \* content of persistentMessageMap.db
    fd0,         \* whether file descriptor 0 was written to
    since,       \* history: per (bridge, direction constant, fromId) the ids loaded or
                 \* inserted since the instance was built or the key last expired
    last,        \* the last step when it was an insert (with whether it logged an
                 \* error), a lookup (with its result) or an
                 \* expiry callback (with the time its chain waited, whether it
                 \* removed a live entry key and whether it was that key's first)
    persisted,   \* history: inserts made so far with persistence enabled
    dumped,      \* history: the ids the index held, per triple, at the last dump
    expired      \* history, with persistence enabled: the triples whose entry key
                 \* an expiry callback deleted, in this or an earlier run of the
                 \* process, and that were not inserted since

vars == <<variant, persistent, timeout, phase, map, timers, file, fd0, since, last, persisted, dumped, expired>>

Triples == Bridges \X Directions \X FromIds
NoCall == [op |-> "none"]
NoneSince == [k \in Triples |-> {}]
MissingFile == [kind |-> "missing"]
InitialFiles == {MissingFile, EmptyFile, TruncatedFile, GarbageFile}
\* "Default is 24 hours"
DefaultTimeout == Ms(0, 86400000)

\* the ids an index holds for a triple
Held(m, k) ==
    IF k[1] \in DOMAIN m
    THEN UNION {Range(m[k[1]][i].ids) : i \in {j \in 1..Len(m[k[1]]) : m[k[1]][j].key = EntryKey(k[2], k[3])}}
    ELSE {}

Init ==
    /\ variant \in {"snapshot", "log"}
    /\ persistent \in BOOLEAN
    /\ timeout = DefaultTimeout
    /\ phase = "start"
    /\ map = EmptyMap
    /\ timers = <<>>
    /\ file \in IF persistent THEN InitialFiles ELSE {MissingFile}
    /\ fd0 = FALSE
    /\ since = NoneSince
    /\ last = NoCall
    /\ persisted = 0
    /\ dumped = NoneSince
    /\ expired = {}

\* fs.openSync(path, "a"): creates the file when it is missing
Opened(f) == IF f = MissingFile THEN EmptyFile ELSE f

\* constructor of MessageMap
Constructor ==
    /\ phase = "start"
    /\ IF ~persistent
       THEN /\ map' = EmptyMap
            /\ phase' = "running"
            /\ file' = file
       ELSE /\ file' = Opened(file)
            /\ IF variant = "snapshot"
               THEN IF JSONparseThrows(Opened(file))
                    THEN map' = EmptyMap /\ phase' = "failed"
                    ELSE map' = convertToMap(JSONparse(Opened(file))) /\ phase' = "running"
               ELSE map' = loadFile(Opened(file)) /\ phase' = "running"
    /\ since' = [k \in Triples |-> Held(map', k)]
    /\ last' = [op |-> "constructor"]
    /\ UNCHANGED <<variant, persistent, timeout, timers, fd0, persisted, dumped, expired>>

\* insert of src/unnamed/part_000 calls this._logger.error("Unable to determine
\* direction") when the direction is neither "d2t" nor "t2d"; insert of
\* src/src/MessageMap.ts never calls the logger
LoggerError(direction) == variant = "log" /\ direction \notin Directions

\* whether the index holds the entry key `key` for the bridge
IsLive(m, bridgeName, key) == bridgeName \in DOMAIN m /\ InnerHas(m[bridgeName], key)

\* setTimeout: the new timeout joins the pending ones, which stay as they are
ScheduleRefreshing(ts, t) ==
    Append(SelectSeq(ts, LAMBDA u : u.onTimeout.bridge # t.onTimeout.bridge
                                       \/ u.onTimeout.key # t.onTimeout.key), t)
Schedule(ts, t) == Append(ts, t)

\* history: once the entry key of a bridge is deleted, no pending callback is
\* the first one scheduled for an entry of the index any more
NotFirst(ts, bridgeName, key) ==
    [j \in 1..Len(ts) |->
        IF ts[j].onTimeout.bridge = bridgeName /\ ts[j].onTimeout.key = key
        THEN [ts[j] EXCEPT !.onTimeout.first = FALSE]
        ELSE ts[j]]

\* insert(direction, bridge, fromId, toId)
Insert(direction, bridgeName, fromId, toId) ==
    /\ phase = "running"
    /\ Len(timers) < MaxTimers
    /\ persistent => persisted < MaxPersisted
    /\ persisted' = IF persistent THEN persisted + 1 ELSE persisted
    /\ map' = InsertIndex(map, direction, bridgeName, fromId, toId)
    /\ IF variant = "log"
       THEN IF persistent
            THEN /\ file' = appendLine(file, csvLine(direction, bridgeName, fromId, toId))
                 /\ fd0' = fd0
            ELSE file' = file /\ fd0' = TRUE
       ELSE file' = file /\ fd0' = fd0
    /\ timers' = Schedule(timers,
                          safeTimeout([bridge |-> bridgeName,
                                       key |-> EntryKey(direction, fromId),
                                       direction |-> direction,
                                       fromId |-> fromId,
                                       first |-> ~IsLive(map, bridgeName, EntryKey(direction, fromId))],
                                      timeout))
    /\ since' = IF <<bridgeName, direction, fromId>> \in Triples
                THEN [since EXCEPT ![<<bridgeName, direction, fromId>>] = @ \cup {toId}]
                ELSE since
    /\ last' = [op |-> "insert", logged |-> LoggerError(direction)]
    /\ expired' = expired \ {<<bridgeName, direction, fromId>>}
    /\ UNCHANGED <<variant, persistent, timeout, phase, dumped>>

\* dump() of src/src/MessageMap.ts
Dump ==
    /\ phase = "running"
    /\ variant = "snapshot"
    /\ file' = IF persistent THEN JSONstringify(convertFromMap(map)) ELSE file
    /\ dumped' = IF persistent THEN [k \in Triples |-> Held(map, k)] ELSE dumped
    /\ last' = NoCall
    /\ UNCHANGED <<variant, persistent, timeout, phase, map, timers, fd0, since, persisted, expired>>

\* Timers of one delay run in the order they were scheduled, so the i-th chain
\* takes a step only when every chain before it has less left to wait.
MayFire(i) ==
    /\ i \in 1..Len(timers)
    /\ \A j \in 1..(i - 1) : Less(timers[j].delay, timers[i].delay)

Without(s, i) == SubSeq(s, 1, i - 1) \o SubSeq(s, i + 1, Len(s))

\* the setTimeout callback of safeTimeout: chains while delay is above
\* MAX_32_BIT, otherwise calls onTimeout, the expiry callback of insert
TimerFires(i) ==
    /\ phase = "running"
    /\ MayFire(i)
    /\ IF MustChain(timers[i].delay)
       THEN /\ timers' = [timers EXCEPT ![i] =
                             [safeTimeout(@.onTimeout, Remaining(@.delay))
                                 EXCEPT !.waited = Plus(timers[i].waited, timers[i].wait)]]
            /\ last' = NoCall
            /\ UNCHANGED <<map, since, expired>>
       ELSE /\ map' = ExpireIndex(map, timers[i].onTimeout.bridge, timers[i].onTimeout.key)
            /\ timers' = NotFirst(Without(timers, i), timers[i].onTimeout.bridge, timers[i].onTimeout.key)
            /\ since' = IF timers[i].onTimeout.direction \in Directions
                        THEN [since EXCEPT ![<<timers[i].onTimeout.bridge,
                                               timers[i].onTimeout.direction,
                                               timers[i].onTimeout.fromId>>] = {}]
                        ELSE since
            /\ last' = [op |-> "onTimeout",
                        bridge |-> timers[i].onTimeout.bridge,
                        direction |-> timers[i].onTimeout.direction,
                        fromId |-> timers[i].onTimeout.fromId,
                        waited |-> Plus(timers[i].waited, timers[i].wait),
                        removed |-> IsLive(map, timers[i].onTimeout.bridge, timers[i].onTimeout.key),
                        first |-> timers[i].onTimeout.first]
            /\ expired' = IF /\ persistent
                              /\ timers[i].onTimeout.direction \in Directions
                              /\ IsLive(map, timers[i].onTimeout.bridge, timers[i].onTimeout.key)
                           THEN expired \cup {<<timers[i].onTimeout.bridge,
                                                timers[i].onTimeout.direction,
                                                timers[i].onTimeout.fromId>>}
                           ELSE expired
    /\ UNCHANGED <<variant, persistent, timeout, phase, file, fd0, persisted, dumped>>

GetCorresponding(direction, bridgeName, fromId) ==
    /\ phase = "running"
    /\ last' = [op |-> "getCorresponding",
               value |-> getCorresponding(map, direction, bridgeName, fromId)]
    /\ map' = AfterLookup(map, bridgeName)
    /\ UNCHANGED <<variant, persistent, timeout, phase, timers, file, fd0, since, persisted, dumped, expired>>

GetCorrespondingReverse(bridgeName, toId) ==
    /\ phase = "running"
    /\ last' = [op |-> "getCorrespondingReverse",
               value |-> getCorrespondingReverse(map, bridgeName, toId)]
    /\ map' = AfterLookup(map, bridgeName)
    /\ UNCHANGED <<variant, persistent, timeout, phase, timers, file, fd0, since, persisted, dumped, expired>>

\* the process ends: the instance and its timers are gone, the file stays
Stop ==
    /\ phase \in {"running", "failed"}
    /\ phase' = "start"
    /\ map' = EmptyMap
    /\ timers' = <<>>
    /\ fd0' = FALSE
    /\ since' = NoneSince
    /\ last' = NoCall
    /\ UNCHANGED <<variant, persistent, timeout, file, persisted, dumped, expired>>

Next ==
    \/ Constructor
    \/ \E d \in Directions, b \in Bridges, f \in FromIds, t \in ToIds : Insert(d, b, f, t)
    \/ Dump
    \/ \E i \in 1..MaxTimers : TimerFires(i)
    \/ \E d \in Directions, b \in Bridges, f \in FromIds : GetCorresponding(d, b, f)
    \/ \E b \in Bridges, t \in ToIds : GetCorrespondingReverse(b, t)
    \/ Stop

\* the whole system
Spec == Init /\ [][Next]_vars

\* persistence disabled (settings.persistentMessageMap false)
MemoryInit == Init /\ ~persistent
MemorySpec == MemoryInit /\ [][Next]_vars

\* persistence enabled
PersistentInit == Init /\ persistent
PersistentSpec == PersistentInit /\ [][Next]_vars

\* ------------------------------------------------------------ claims
Running == phase = "running"
Corresponding(k) == getCorresponding(map, k[2], k[1], k[3])
UnknownBridge == <<"z">>
UnknownId == <<"9">>

\* C1: every id inserted under (direction, bridge, fromId) since the key last
\* expired is among the ids getCorresponding returns for it, whatever else was
\* inserted or looked up meanwhile.
C1_InsertedIsReturned ==
    Running => \A k \in Triples : since[k] \subseteq Range(Corresponding(k))

C1_Witness ==
    /\ Running
    /\ Len(timers) = 2
    /\ timers[1].onTimeout.key # timers[2].onTimeout.key
    /\ last.op = "getCorresponding"
    /\ last.value # <<>>

\* C2: inserts under one (direction, bridge, fromId) merge: getCorresponding
\* returns exactly the ids inserted since the key last expired, each once.
C2_InsertsMerge ==
    Running => \A k \in Triples :
        /\ Range(Corresponding(k)) = since[k]
        /\ Len(Corresponding(k)) = Cardinality(since[k])

C2_Witness ==
    /\ Running
    /\ \E k \in Triples : since[k] = ToIds
    /\ last.op = "getCorresponding"
    /\ Range(last.value) = ToIds

\* C3 (as claimed): for every id t inserted under (direction, bridge, fromId)
\* and not yet expired, getCorrespondingReverse(bridge, t) is the one-element
\* sequence [fromId].
C3_ReverseReturnsFromId ==
    Running => \A k \in Triples : \A t \in since[k] :
        getCorrespondingReverse(map, k[1], t) = <<k[3]>>

\* C4: when an expiry callback runs, the configured timeout has been waited
\* and getCorresponding for its key is empty; a key with no insert since its
\* expiry has no ids.
C4_ExpiredIsEmpty ==
    Running =>
        /\ last.op = "onTimeout" =>
              /\ last.waited = timeout
              /\ getCorresponding(map, last.direction, last.bridge, last.fromId) = <<>>
        /\ \A k \in Triples : since[k] = {} => Corresponding(k) = <<>>

C4_Witness ==
    /\ Running
    /\ last.op = "onTimeout"
    /\ timers # <<>>
    /\ \E k \in Triples : since[k] # {}

\* C5: a lookup for a bridge without sub-map, or for an id the index does not
\* hold, returns the empty sequence.
C5_MissIsEmpty ==
    Running =>
        /\ \A d \in Directions, f \in FromIds \cup {UnknownId} :
              /\ getCorresponding(map, d, UnknownBridge, f) = <<>>
              /\ \A b \in Bridges :
                    (b \notin DOMAIN map \/ f = UnknownId \/ since[<<b, d, f>>] = {})
                        => getCorresponding(map, d, b, f) = <<>>
        /\ \A t \in ToIds \cup {UnknownId} :
              /\ getCorrespondingReverse(map, UnknownBridge, t) = <<>>
              /\ \A b \in Bridges :
                    (b \notin DOMAIN map \/ \A d \in Directions, f \in FromIds : t \notin since[<<b, d, f>>])
                        => getCorrespondingReverse(map, b, t) = <<>>
        /\ last.op \in {"getCorresponding", "getCorrespondingReverse"}
              => last.value \in Seq(Seq({"1", "2", "7", "8", " "}))

C5_Witness ==
    /\ Running
    /\ DOMAIN map # {}
    /\ DOMAIN map # Bridges
    /\ last.op = "getCorrespondingReverse"
    /\ last.value = <<>>

\* C6: getCorresponding(d, b, f) returns only ids inserted with exactly that
\* direction, bridge and origin id.
C6_Isolated ==
    Running => \A k \in Triples : Range(Corresponding(k)) \subseteq since[k]

C6_Witness ==
    /\ Running
    /\ Cardinality({k \in Triples : since[k] # {}}) = 1
    /\ since[<<(<<"x">>), T2D, <<"1">>>>] = {<<"7">>}
    /\ getCorresponding(map, D2T, <<"x">>, <<"1">>) = <<>>
    /\ getCorresponding(map, T2D, <<"y">>, <<"1">>) = <<>>
    /\ last = [op |-> "getCorresponding", value |-> <<>>]

\* what the constructor would load from file f
Reloaded(f) ==
    IF variant = "log" THEN loadFile(Opened(f))
    ELSE IF JSONparseThrows(Opened(f)) THEN EmptyMap
    ELSE convertToMap(JSONparse(Opened(f)))

\* C7 (as claimed): a fresh instance constructed from the file dump wrote
\* answers getCorresponding, for every key, with the ids the index held when it
\* was dumped.
C7_SnapshotRoundTrip ==
    (last.op = "constructor" /\ persistent /\ variant = "snapshot" /\ file.kind = "json")
        => \A k \in Triples : Range(Corresponding(k)) = dumped[k]

\* C8 (as claimed): with persistence enabled, whatever a completed insert added
\* and has not expired is in what a fresh instance would load from the file.
C8_InsertIsPersisted ==
    (Running /\ persistent) => \A k \in Triples :
        since[k] \subseteq Range(getCorresponding(Reloaded(file), k[2], k[1], k[3]))

Unparsable == {MissingFile, EmptyFile, TruncatedFile, GarbageFile}

\* C9 (as claimed): with persistence enabled the constructor never throws, and
\* an instance built from a missing, empty or unparsable file has an empty
\* index.
C9_ConstructorFailsOpen ==
    persistent =>
        /\ phase # "failed"
        /\ (Running /\ persisted = 0 /\ file \in Unparsable) => map = EmptyMap

\* ------------------------------------------------------------ safeTimeout alone
\* One chain at a time, over requested delays below, at and above
\* MAX_32_BIT; the platform runs every pending timeout.
Delays == {Ms(h, l) : h \in 0..MaxHi, l \in {0, 1, 86400000, MAX_32_BIT - 1}}

TimerInit ==
    /\ variant = "snapshot"
    /\ persistent = FALSE
    /\ timeout \in Delays
    /\ phase = "start"
    /\ map = EmptyMap
    /\ timers = <<>>
    /\ file = MissingFile
    /\ fd0 = FALSE
    /\ since = NoneSince
    /\ last = NoCall
    /\ persisted = 0
    /\ dumped = NoneSince
    /\ expired = {}

TimerNext ==
    \/ Constructor
    \/ \E d \in Directions, b \in Bridges, f \in FromIds, t \in ToIds :
          timers = <<>> /\ Insert(d, b, f, t)
    \/ TimerFires(1)

TimerSpec == TimerInit /\ [][TimerNext]_vars /\ WF_vars(TimerFires(1))

\* every wait is at most MAX_32_BIT, the waits done and the delay still to
\* wait add up to the requested delay, the callback runs only when the whole
\* delay has been waited, and nothing stays scheduled after it
C10_Safe ==
    /\ \A i \in 1..Len(timers) :
          /\ ~Less(MaxDelay, timers[i].wait)
          /\ Plus(timers[i].waited, timers[i].delay) = timeout
    /\ last.op = "onTimeout" => (last.waited = timeout /\ timers = <<>>)

\* C10: for every requested delay safeTimeout calls the callback exactly
\* once: every scheduled chain ends in its callback, after waits of at most
\* MAX_32_BIT each that add up to the requested delay, and not before.
C10_DelayChaining == []C10_Safe /\ ((timers # <<>>) ~> (last.op = "onTimeout"))

C10_Witness ==
    /\ last.op = "onTimeout"
    /\ timeout = Ms(2, 0)
    /\ last.waited = Ms(2, 0)

\* ------------------------------------------------------------ expiry
\* the pending expiry callbacks of the entry key `key` of bridge b
PendingFor(b, key) ==
    {j \in 1..Len(timers) : timers[j].onTimeout.bridge = b /\ timers[j].onTimeout.key = key}

\* the entry keys the index holds, as <<bridge, key>> pairs
LiveKeys == UNION {{<<b, map[b][i].key>> : i \in 1..Len(map[b])} : b \in DOMAIN map}

\* C11 (as claimed): every entry key of the index, created by insert or
\* loaded at construction, is removed in the end when it is not inserted
\* again: once the instance runs and no expiry callback is pending any more,
\* the index holds no id under any (bridge, direction, origin id).
C11_AllKeysExpire ==
    (Running /\ timers = <<>>) => \A k \in Triples : Held(map, k) = {}

LastKey == EntryKey(last.direction, last.fromId)

\* C13: inserting a live key again does not extend its life: the callback of
\* the insert that created the key stays pending as long as the key lives, and
\* when it runs, the configured timeout after that insert, the key is gone
\* with every id, the ids of later inserts included, so that getCorresponding
\* is empty.
C13_ReinsertKeepsDeadline ==
    Running =>
        /\ \A lk \in LiveKeys :
              Cardinality({j \in PendingFor(lk[1], lk[2]) : timers[j].onTimeout.first}) = 1
        /\ (last.op = "onTimeout" /\ last.first) =>
              /\ last.removed
              /\ last.waited = timeout
              /\ getCorresponding(map, last.direction, last.bridge, last.fromId) = <<>>
              /\ since[<<last.bridge, last.direction, last.fromId>>] = {}

C13_Witness ==
    /\ Running
    /\ last.op = "onTimeout"
    /\ last.first
    /\ PendingFor(last.bridge, LastKey) # {}
    /\ <<last.bridge, LastKey>> \notin LiveKeys

\* C14 (as claimed): a live entry key is only ever removed by the first timer
\* scheduled for it, the one of the insert that created it; no callback that
\* an earlier insert of the same direction, bridge and origin id scheduled
\* removes it before.
C14_RemovedByFirstTimer ==
    (Running /\ last.op = "onTimeout" /\ last.removed) => last.first

\* a step in which an expiry callback runs
ExpiryStep == phase' = "running" /\ last'.op = "onTimeout" /\ Len(timers') < Len(timers)

\* C15: an expiry callback removes at most its own entry key from its own
\* bridge's sub-map: every other key of that sub-map, with its ids and its
\* place, every other sub-map and the set of bridges with a sub-map stay as
\* they were, and when the key was already absent the index does not change.
C15_ExpiryDeletesOwnKey ==
    [][ExpiryStep =>
          /\ DOMAIN map' = DOMAIN map
          /\ \A b \in DOMAIN map :
                map'[b] = IF b = last'.bridge
                          THEN SelectSeq(map[b], LAMBDA e : e.key # EntryKey(last'.direction, last'.fromId))
                          ELSE map[b]
          /\ ~last'.removed => map' = map]_vars

C15_Witness ==
    /\ Running
    /\ last.op = "onTimeout"
    /\ last.removed
    /\ \E lk \in LiveKeys : lk[1] # last.bridge /\ lk[2] = LastKey

\* ------------------------------------------------------------ any direction
\* Persistence disabled, insert and getCorresponding called with the two
\* direction constants and with a direction that is neither.
AnyDirectionNext ==
    \/ Constructor
    \/ \E d \in Directions \cup {OtherDirection}, b \in Bridges, f \in FromIds, t \in ToIds :
          Insert(d, b, f, t)
    \/ \E i \in 1..MaxTimers : TimerFires(i)
    \/ \E d \in Directions \cup {OtherDirection}, b \in Bridges, f \in FromIds :
          GetCorresponding(d, b, f)

AnyDirectionSpec == MemoryInit /\ [][AnyDirectionNext]_vars

\* C16 (as claimed): an insert with a direction that is neither constant
\* reports an error through the logger and goes on: the instance keeps
\* running, toId is in the set of the key of (direction, fromId) and an expiry
\* callback for that key is scheduled.
C16_UnknownDirectionLogged ==
    [][\A b \in Bridges, f \in FromIds, t \in ToIds :
          Insert(OtherDirection, b, f, t) =>
              /\ last'.logged
              /\ phase' = "running"
              /\ t \in Range(getCorresponding(map', OtherDirection, b, f))
              /\ \E j \in 1..Len(timers') :
                    /\ j > Len(timers)
                    /\ timers'[j].onTimeout.bridge = b
                    /\ timers'[j].onTimeout.key = EntryKey(OtherDirection, f)]_vars

\* C17 (as claimed): with persistence disabled no operation writes to a file or
\* a file descriptor: the constructor opens nothing and leaves the index empty,
\* and insert and dump change only what is in memory.
C17_NoWriteWithoutPersistence ==
    ~persistent =>
        /\ file = MissingFile
        /\ fd0 = FALSE
        /\ last.op = "constructor" => map = EmptyMap

\* C18 (as claimed): with persistence enabled, an entry key that an expiry
\* callback deleted and that was not inserted since is not in the index of an
\* instance constructed afterwards from the persisted file.
C18_ExpiredStaysGone ==
    (Running /\ persistent /\ last.op = "constructor") =>
        \A k \in expired : Corresponding(k) = <<>>

\* C19: lookups only read: a getCorresponding or getCorrespondingReverse, hit
\* or miss, for a bridge with or without sub-map, leaves the index, the set of
\* bridges with a sub-map included, and the pending expiry callbacks as they
\* were.
C19_LookupsReadOnly ==
    [][last'.op \in {"getCorresponding", "getCorrespondingReverse"} =>
          /\ map' = map
          /\ DOMAIN map' = DOMAIN map
          /\ timers' = timers
          /\ file' = file]_vars

C19_Witness ==
    /\ Running
    /\ last.op = "getCorrespondingReverse"
    /\ last.value # <<>>
    /\ timers # <<>>
    /\ DOMAIN map # Bridges

====
